---------------------------- MODULE Spec2Model ----------------------------
(***************************************************************************)
(* Model of compute/compute_rtg.py (ACAC net-points leaderboard).          *)
(*                                                                         *)
(* process_gender is a single-pass batch computation over two tables, the  *)
(* player box-score rows (box) and the team-total rows (team).  The model  *)
(* follows its blocks in order: load, team-game resolution, per-player     *)
(* allocation, season aggregation, export.  Spec is one call of it on      *)
(* readable files; SpecMain is main over both partitions, with files that  *)
(* cannot be read and writes that fail; SpecWar is the loading of the box  *)
(* scores in compute/compute_war.py.                                       *)
(*                                                                         *)
(* Numbers.  A pandas float is modelled as an exact fraction [n, d] with   *)
(* d >= 0 in lowest terms.  d = 0 carries the IEEE special values:         *)
(* 0/0 is NaN, 1/0 is +inf and -1/0 is -inf.  Binary rounding error is not *)
(* modelled: arithmetic is exact.                                          *)
(***************************************************************************)
EXTENDS Integers, Sequences, FiniteSets, TLC

-----------------------------------------------------------------------------
(* Exact fractions with NaN and infinities *)

Abs(x) == IF x < 0 THEN -x ELSE x

Sign(x) == IF x > 0 THEN 1 ELSE IF x < 0 THEN -1 ELSE 0

RECURSIVE GCD(_, _)
GCD(a, b) == IF b = 0 THEN a ELSE GCD(b, a % b)

Lowest(n, d, g) == [n |-> n \div g, d |-> d \div g]

\* the fraction n/d in lowest terms with a non-negative denominator
Rat(n, d) ==
    IF d = 0 THEN [n |-> Sign(n), d |-> 0]
    ELSE IF d < 0 THEN Lowest(-n, -d, GCD(Abs(n), -d))
    ELSE Lowest(n, d, GCD(Abs(n), d))

FromInt(i) == [n |-> i, d |-> 1]

NaN == [n |-> 0, d |-> 0]

Zero == FromInt(0)

One == FromInt(1)

IsNaN(x) == x.d = 0 /\ x.n = 0

IsFinite(x) == x.d > 0

RNeg(a) == [n |-> -a.n, d |-> a.d]

RAdd(a, b) ==
    IF a.d = 0 /\ b.d = 0
    THEN (IF a.n = b.n THEN a ELSE NaN)
    ELSE Rat(a.n * b.d + b.n * a.d, a.d * b.d)

RSub(a, b) == RAdd(a, RNeg(b))

RMul(a, b) == Rat(a.n * b.n, a.d * b.d)

RDiv(a, b) ==
    LET s == IF b.n < 0 THEN -1 ELSE 1
    IN  Rat(s * a.n * b.d, s * a.d * b.n)

\* a > b as pandas/numpy evaluate it: any comparison with NaN is False
RGt(a, b) ==
    IF IsNaN(a) \/ IsNaN(b) THEN FALSE
    ELSE IF a.d = 0 /\ b.d = 0 THEN a.n > b.n
    ELSE IF a.d = 0 THEN a.n > 0
    ELSE IF b.d = 0 THEN b.n < 0
    ELSE a.n * b.d > b.n * a.d

\* a <= b, False when either side is NaN
RLe(a, b) == ~IsNaN(a) /\ ~IsNaN(b) /\ ~RGt(a, b)

\* Series.fillna(v)
fillna(x, v) == IF IsNaN(x) THEN v ELSE x

\* Series.replace(0, np.nan)
replace0(x) == IF x = Zero THEN NaN ELSE x

\* Series.clip(lower=0): NaN stays NaN
clip0(x) == IF IsNaN(x) THEN x ELSE IF RGt(Zero, x) THEN Zero ELSE x

\* numpy round(0) of a finite value: nearest integer, ties to the even one
RoundHalfEven(x) ==
    LET fl == x.n \div x.d
        r2 == 2 * (x.n - fl * x.d)
    IN  IF r2 < x.d THEN fl
        ELSE IF r2 > x.d THEN fl + 1
        ELSE IF fl % 2 = 0 THEN fl ELSE fl + 1

\* Series.sum() (skipna=True): NaN entries are skipped, an empty sum is 0
RECURSIVE SumSkipNa(_)
SumSkipNa(s) ==
    IF s = << >> THEN Zero
    ELSE RAdd(fillna(Head(s), Zero), SumSkipNa(Tail(s)))


\* concatenation of a sequence of sequences (pd.concat / the rows a merge emits)
RECURSIVE Concat(_)
Concat(ss) == IF ss = << >> THEN << >> ELSE Head(ss) \o Concat(Tail(ss))

\* the column col of table tbl as a sequence of values
Column(tbl, col) == [i \in 1..Len(tbl) |-> tbl[i][col]]

-----------------------------------------------------------------------------
(* Bounds of the explored inputs *)

MaxBoxRows == 2

MaxTeamRows == 2

Games == {"g1", "g2"}

Players == {"p1", "p2"}

\* lexicographic order of the names above, as groupby sorts its keys
NameOrder == <<"A", "B", "g1", "g2", "p1", "p2">>

NameRank(s) == CHOOSE i \in 1..Len(NameOrder) : NameOrder[i] = s

\* box-score lines a player row can carry (minutes and counting stats):
\* 1 a scorer (off_box 2, def_box 0), 2 a stopper (off_box -5/2, def_box 3/2),
\* 3 a player who did not play (no minutes, off_box 0, def_box 0)
BoxLines ==
    << [MIN |-> 1, FGM |-> 1, FGA |-> 1, FTM |-> 0, FTA |-> 0, OREB |-> 0, DREB |-> 0,
        AST |-> 0, STL |-> 0, BLK |-> 0, TO |-> 0, PF |-> 0, PTS |-> 2],
       [MIN |-> 1, FGM |-> 0, FGA |-> 2, FTM |-> 0, FTA |-> 1, OREB |-> 0, DREB |-> 1,
        AST |-> 0, STL |-> 1, BLK |-> 1, TO |-> 0, PF |-> 2, PTS |-> 0],
       [MIN |-> 0, FGM |-> 0, FGA |-> 0, FTM |-> 0, FTA |-> 0, OREB |-> 0, DREB |-> 0,
        AST |-> 0, STL |-> 0, BLK |-> 0, TO |-> 0, PF |-> 0, PTS |-> 0] >>

\* player rows of the box-score files: the players of team A in two games
BoxFileRows ==
    [game_id : Games, team_name : {"A"}, player_name : Players,
     line : 1..Len(BoxLines)]

\* team rows of the team-stats files: team A in the first game, with declared
\* team minutes of 2 or absent (0), and its opponent B; the second game has no
\* team row, so its player rows have no team-game
TeamFileRows ==
    [game_id : {"g1"}, team_name : {"A"}, opp_team_name : {"B"},
     team_min : {0, 2}, PTS : {0, 2}]
    \cup
    [game_id : {"g1"}, team_name : {"B"}, opp_team_name : {"A"},
     team_min : {0}, PTS : {0, 1}]

SeqsUpTo(S, n) == UNION { [1..k -> S] : k \in 0..n }

\* No step of process_gender depends on the order of the rows within a file
\* (merges, group sums and sorted group keys), so each multiset of rows is
\* explored in one order: rows in non-decreasing code.
BoxCode(r) == (NameRank(r.game_id) * 8 + NameRank(r.player_name)) * 4 + r.line

TeamCode(r) ==
    ((NameRank(r.game_id) * 8 + NameRank(r.team_name)) * 4 + r.team_min) * 4 + r.PTS

Ordered(s, Code(_)) == \A i \in 1..(Len(s) - 1) : Code(s[i]) <= Code(s[i + 1])

-----------------------------------------------------------------------------
(* State *)

VARIABLES
    pc,         \* position of process_gender
    box_files,  \* rows of the box-score CSV files of the partition
    team_files, \* rows of the team-stats CSV files of the partition
    box,        \* DataFrame box after normalisation
    team,       \* DataFrame team, with the columns process_gender adds
    m,          \* DataFrame m: player rows joined to their team-game
    agg,        \* DataFrame agg: season totals per player
    out,        \* rows of the leaderboard CSV; "absent" before any write
    visible,    \* what a reader of the leaderboard path finds there
    gender,     \* the partition main is on
    unreadable  \* a CSV file of the partition decodes under no encoding

vars == <<pc, box_files, team_files, box, team, m, agg, out, visible, gender,
          unreadable>>

-----------------------------------------------------------------------------
(* Coefficients of the allocation *)

W_MIN == Rat(4, 10)

\* a box weight that does not complement W_MIN
W_BOX_Heavy == Rat(7, 10)

W_BOX == Rat(6, 10)

Half == Rat(1, 2)

-----------------------------------------------------------------------------
(* load_all + normalize_names + to_num *)

\* the counting columns hold whole numbers; they are kept as integers and
\* lifted to fractions where the arithmetic starts
to_num_box(r) ==
    [game_id |-> r.game_id, team_name |-> r.team_name, player_name |-> r.player_name]
    @@ BoxLines[r.line]

to_num_team(r) ==
    [game_id |-> r.game_id, team_name |-> r.team_name,
     opp_team_name |-> r.opp_team_name,
     team_min |-> FromInt(r.team_min), PTS |-> FromInt(r.PTS)]

-----------------------------------------------------------------------------
(* Team-game resolution: opponent points, differential, team minutes, shares *)

\* rows of T that the self-merge pairs with row l: same game, team = l's opponent
OppMatches(l, T) ==
    SelectSeq(T, LAMBDA r : r.game_id = l.game_id /\ r.team_name = l.opp_team_name)

\* team.merge(opp_pts, on=[game_id, opp_team_name], how="left")
MergeOppPts(T) ==
    Concat([i \in 1..Len(T) |->
        LET mt == OppMatches(T[i], T)
        IN  IF mt = << >> THEN << [T[i] EXCEPT !.opp_pts = NaN] >>
            ELSE [j \in 1..Len(mt) |-> [T[i] EXCEPT !.opp_pts = mt[j].PTS]]])

\* opp_pts.fillna(0.0)
FillOppPts(x) == fillna(x, Zero)

\* lines 128-132: opp_pts and diff
WithDiff(T) ==
    LET T0 == [i \in 1..Len(T) |-> T[i] @@ [opp_pts |-> NaN]]
        T1 == MergeOppPts(T0)
    IN  [i \in 1..Len(T1) |->
            LET op == FillOppPts(T1[i].opp_pts)
            IN  [T1[i] EXCEPT !.opp_pts = op] @@ [diff |-> RSub(T1[i].PTS, op)]]

\* box.groupby([game_id, team_name])["MIN"].sum(), looked up by left merge:
\* NaN when box has no row of that team-game
TeamMinFromBox(B, g, t) ==
    LET rows == SelectSeq(B, LAMBDA r : r.game_id = g /\ r.team_name = t)
    IN  IF rows = << >> THEN NaN
        ELSE SumSkipNa([i \in 1..Len(rows) |-> FromInt(rows[i].MIN)])

\* value given to team_min of a masked row
RecomputedTeamMin(B, r) == fillna(TeamMinFromBox(B, r.game_id, r.team_name), Zero)

\* lines 134-141
WithTeamMin(T, B) ==
    [i \in 1..Len(T) |->
        IF RLe(T[i].team_min, Zero)
        THEN [T[i] EXCEPT !.team_min = RecomputedTeamMin(B, T[i])]
        ELSE T[i]]

\* the scoring mix taken with a floor division
SplitOff_Floor(pts, opp) ==
    LET q == RDiv(pts, replace0(RAdd(pts, opp)))
    IN  IF IsNaN(q) THEN Half ELSE FromInt(q.n \div q.d)

\* lines 145-146
SplitOff(pts, opp) == fillna(RDiv(pts, replace0(RAdd(pts, opp))), Half)

OffShare(diff, pts, opp) == RMul(diff, SplitOff(pts, opp))

\* the complement taken the wrong way round
DefShare_Swapped(diff, offs) == RSub(offs, diff)

DefShare(diff, offs) == RSub(diff, offs)

\* lines 143-148
WithShares(T) ==
    [i \in 1..Len(T) |->
        LET os == OffShare(T[i].diff, T[i].PTS, T[i].opp_pts)
        IN  T[i] @@ [off_share |-> os, def_share |-> DefShare(T[i].diff, os)]]

-----------------------------------------------------------------------------
(* Allocation engine *)

TeamMatches(b, T) ==
    SelectSeq(T, LAMBDA r : r.game_id = b.game_id /\ r.team_name = b.team_name)

\* lines 159-164
OffBox(r) ==
    RSub(RSub(RSub(RAdd(RAdd(FromInt(r.PTS), RMul(Rat(7, 10), FromInt(r.AST))),
                        RMul(Rat(7, 10), FromInt(r.OREB))),
                   FromInt(r.FGA - r.FGM)),
              RMul(Half, FromInt(r.FTA - r.FTM))),
         FromInt(r.TO))

\* lines 165-168
DefBox(r) ==
    RSub(RAdd(RAdd(FromInt(r.STL), RMul(Rat(7, 10), FromInt(r.BLK))),
              RMul(Rat(3, 10), FromInt(r.DREB))),
         RMul(Rat(1, 4), FromInt(r.PF)))

\* min_share without its fillna(0)
MinShare_NoFill(mins, team_min) == RDiv(mins, team_min)

\* lines 155-156; team_min has had its zeros replaced by NaN
MinShare(mins, team_min) == fillna(RDiv(mins, team_min), Zero)

\* One row of m after lines 152-172.  b is the player row; tm, df, os, ds are the
\* team_min, diff, off_share and def_share the merge brought, NaN when the
\* player row has no team-game.  The counting-stat columns stay in m in the
\* code; they are not read after off_box and def_box and are left in box here.
WeightRow(b, tm, df, os, ds) ==
    [game_id |-> b.game_id, team_name |-> b.team_name, player_name |-> b.player_name,
     MIN |-> FromInt(b.MIN),
     team_min |-> replace0(tm), diff |-> df, off_share |-> os, def_share |-> ds,
     min_share |-> MinShare(FromInt(b.MIN), replace0(tm)),
     off_w |-> clip0(OffBox(b)),
     def_w |-> clip0(DefBox(b))]

\* line 152: box.merge(team[[...]], on=keys, how="left"), then lines 154-172
MergeTeam(B, T) ==
    Concat([i \in 1..Len(B) |->
        LET mt == TeamMatches(B[i], T)
        IN  IF mt = << >> THEN << WeightRow(B[i], NaN, NaN, NaN, NaN) >>
            ELSE [j \in 1..Len(mt) |->
                    WeightRow(B[i], mt[j].team_min, mt[j].diff,
                              mt[j].off_share, mt[j].def_share)]])

\* sums taken over the whole table instead of per team-game
GroupOf_WholeTable(M, r) == M

\* rows of M in the same (game_id, team_name) group as r
GroupOf(M, r) ==
    SelectSeq(M, LAMBDA x : x.game_id = r.game_id /\ x.team_name = r.team_name)

\* lines 175-177: the group sum of column col, merged back onto row r
GroupSum(M, r, col) == SumSkipNa(Column(GroupOf(M, r), col))

\* a fallback to zero weights instead of minutes shares
Alpha_NoFallback(w, wsum, min_share) == IF RGt(wsum, Zero) THEN RDiv(w, wsum) ELSE Zero

\* lines 180-181: np.where(sum > 0, w / sum, min_share)
Alpha(w, wsum, min_share) == IF RGt(wsum, Zero) THEN RDiv(w, wsum) ELSE min_share

\* lines 184-185
MinsPart(min_share, share) == RMul(RMul(W_MIN, min_share), share)

\* lines 188-189
BoxPart(share, alpha) == RMul(RMul(W_BOX, share), alpha)

\* lines 174-196 for one row r of m, given its group sums
ValueRow(r, off_sum, def_sum, min_sum) ==
    LET off_alpha == Alpha(r.off_w, off_sum, r.min_share)
        def_alpha == Alpha(r.def_w, def_sum, r.min_share)
        mins_off == MinsPart(r.min_share, r.off_share)
        mins_def == MinsPart(r.min_share, r.def_share)
        box_off == BoxPart(r.off_share, off_alpha)
        box_def == BoxPart(r.def_share, def_alpha)
        Off == RAdd(mins_off, box_off)
        Def == RAdd(mins_def, box_def)
    IN  [game_id |-> r.game_id, team_name |-> r.team_name,
         player_name |-> r.player_name, MIN |-> r.MIN,
         team_min |-> r.team_min, diff |-> r.diff,
         off_share |-> r.off_share, def_share |-> r.def_share,
         min_share |-> r.min_share, off_w |-> r.off_w, def_w |-> r.def_w,
         off_sum |-> off_sum, def_sum |-> def_sum, min_sum |-> min_sum,
         off_alpha |-> off_alpha, def_alpha |-> def_alpha,
         mins_off |-> mins_off, mins_def |-> mins_def,
         box_off |-> box_off, box_def |-> box_def,
         Off |-> Off, Def |-> Def, Overall |-> RAdd(Off, Def),
         game_flag |-> 1]

WithValues(M) ==
    [i \in 1..Len(M) |->
        ValueRow(M[i], GroupSum(M, M[i], "off_w"), GroupSum(M, M[i], "def_w"),
                 GroupSum(M, M[i], "min_share"))]

-----------------------------------------------------------------------------
(* Season aggregation *)

\* group keys (player_name, team_name) in the order groupby emits them
KeyLess(a, b) ==
    \/ NameRank(a[1]) < NameRank(b[1])
    \/ a[1] = b[1] /\ NameRank(a[2]) < NameRank(b[2])

GroupKeys(M) == { <<M[i].player_name, M[i].team_name>> : i \in 1..Len(M) }

RECURSIVE SortedKeys(_)
SortedKeys(K) ==
    IF K = {} THEN << >>
    ELSE LET k == CHOOSE x \in K : \A y \in K \ {x} : KeyLess(x, y)
         IN  <<k>> \o SortedKeys(K \ {k})

PlayerRows(M, k) ==
    SelectSeq(M, LAMBDA r : r.player_name = k[1] /\ r.team_name = k[2])

\* games=("game_flag","sum")
GamesOf(rows) == Len(rows)

\* lines 199-203
AggRow(M, k) ==
    LET rows == PlayerRows(M, k)
    IN  [player_name |-> k[1], team_name |-> k[2],
         games |-> GamesOf(rows),
         Off |-> SumSkipNa(Column(rows, "Off")),
         Def |-> SumSkipNa(Column(rows, "Def")),
         Overall |-> SumSkipNa(Column(rows, "Overall"))]

GroupAgg(M) ==
    LET ks == SortedKeys(GroupKeys(M))
    IN  [i \in 1..Len(ks) |-> AggRow(M, ks[i])]

\* lines 206-207: round(0).astype(int), column by column
RoundRow(r) ==
    [r EXCEPT !.Off = RoundHalfEven(r.Off),
              !.Def = RoundHalfEven(r.Def),
              !.Overall = RoundHalfEven(r.Overall)]

\* astype(int) raises on NaN and on infinities
CanRound(A) ==
    \A i \in 1..Len(A) : IsFinite(A[i].Off) /\ IsFinite(A[i].Def) /\ IsFinite(A[i].Overall)

\* line 210: the orders sort_values("Overall", ascending=False) may return; the
\* default sort kind is not stable, so rows of equal Overall come in any order
SortedByOverall(A) ==
    { [i \in 1..Len(A) |-> A[p[i]]] : p \in
        { q \in Permutations(1..Len(A)) :
            \A i, j \in 1..Len(A) : i < j => A[q[i]].Overall >= A[q[j]].Overall } }

\* line 213: the columns written
CsvRow(r) ==
    [player_name |-> r.player_name, team_name |-> r.team_name, games |-> r.games,
     Off |-> r.Off, Def |-> r.Def, Overall |-> r.Overall]

-----------------------------------------------------------------------------
(* process_gender *)

\* line 218: the partitions main goes through, in this order
GENDERS == <<"men", "women">>

\* the inputs of one partition: the rows of its readable files
BoxFileSets == { s \in SeqsUpTo(BoxFileRows, MaxBoxRows) : Ordered(s, BoxCode) }

TeamFileSets == { s \in SeqsUpTo(TeamFileRows, MaxTeamRows) : Ordered(s, TeamCode) }

\* process_gender("men") is entered; every file is readable and no leaderboard
\* was written before
Init ==
    /\ pc = "load"
    /\ box_files \in BoxFileSets
    /\ team_files \in TeamFileSets
    /\ box = << >>
    /\ team = << >>
    /\ m = << >>
    /\ agg = << >>
    /\ out = "absent"
    /\ visible = "absent"
    /\ gender = GENDERS[1]
    /\ unreadable = FALSE

\* lines 104-126; an empty table sends the run to the header-only write
Load ==
    /\ pc = "load"
    /\ ~unreadable
    /\ box' = [i \in 1..Len(box_files) |-> to_num_box(box_files[i])]
    /\ team' = [i \in 1..Len(team_files) |-> to_num_team(team_files[i])]
    /\ pc' = IF box_files = << >> \/ team_files = << >> THEN "write_empty" ELSE "resolve"
    /\ UNCHANGED <<box_files, team_files, m, agg, out, visible, gender, unreadable>>

\* lines 128-148
ResolveTeams ==
    /\ pc = "resolve"
    /\ team' = WithShares(WithTeamMin(WithDiff(team), box))
    /\ pc' = "allocate"
    /\ UNCHANGED <<box_files, team_files, box, m, agg, out, visible, gender, unreadable>>

\* lines 150-196
Allocate ==
    /\ pc = "allocate"
    /\ m' = WithValues(MergeTeam(box, team))
    /\ pc' = "aggregate"
    /\ UNCHANGED <<box_files, team_files, box, team, agg, out, visible, gender, unreadable>>

\* lines 198-210
Aggregate ==
    /\ pc = "aggregate"
    /\ LET A == GroupAgg(m)
       IN  IF CanRound(A)
           THEN /\ agg' \in SortedByOverall([i \in 1..Len(A) |-> RoundRow(A[i])])
                /\ pc' = "write"
           ELSE /\ agg' = agg
                /\ pc' = "raised"
    /\ UNCHANGED <<box_files, team_files, box, team, m, out, visible, gender, unreadable>>

\* lines 110 and 213: to_csv opens the leaderboard path itself for writing,
\* which empties the file that was there
WriteOpen ==
    /\ pc \in {"write", "write_empty"}
    /\ visible' = "truncated"
    /\ pc' = "writing"
    /\ UNCHANGED <<box_files, team_files, box, team, m, agg, out, gender, unreadable>>

\* lines 110 and 213: the header and the rows are written and the file closed;
\* the header-only write has no rows (agg is still empty)
WriteRows ==
    /\ pc = "writing"
    /\ out' = [i \in 1..Len(agg) |-> CsvRow(agg[i])]
    /\ visible' = "new"
    /\ pc' = "done"
    /\ UNCHANGED <<box_files, team_files, box, team, m, agg, gender, unreadable>>

Next == Load \/ ResolveTeams \/ Allocate \/ Aggregate \/ WriteOpen \/ WriteRows

Spec == Init /\ [][Next]_vars

-----------------------------------------------------------------------------
(* main: both partitions, files that cannot be read, writes that fail *)

\* main is started: the first partition is entered; a file of it may be
\* unreadable, and a leaderboard of an earlier run may be in place
InitMain ==
    /\ pc = "load"
    /\ box_files \in BoxFileSets
    /\ team_files \in TeamFileSets
    /\ box = << >>
    /\ team = << >>
    /\ m = << >>
    /\ agg = << >>
    /\ out = "absent"
    /\ visible \in {"absent", "previous"}
    /\ gender = GENDERS[1]
    /\ unreadable \in BOOLEAN

\* lines 64-65, 76, 105-106, 219: read_csv_robust raises RuntimeError; neither
\* load_all, process_gender nor main catches it
LoadRaises ==
    /\ pc = "load"
    /\ unreadable
    /\ pc' = "read_failed"
    /\ UNCHANGED <<box_files, team_files, box, team, m, agg, out, visible, gender,
                   unreadable>>

\* lines 110 and 213: the write stops after the file was opened (full disk,
\* killed process); nothing restores the file
WriteFails ==
    /\ pc = "writing"
    /\ pc' = "write_failed"
    /\ UNCHANGED <<box_files, team_files, box, team, m, agg, out, visible, gender,
                   unreadable>>

\* lines 112 and 214: process_gender returns and its tables are gone
Return ==
    /\ pc = "done"
    /\ box_files' = << >>
    /\ team_files' = << >>
    /\ box' = << >>
    /\ team' = << >>
    /\ m' = << >>
    /\ agg' = << >>
    /\ out' = "absent"
    /\ pc' = "returned"
    /\ UNCHANGED <<visible, gender, unreadable>>

\* lines 218-219: the loop of main enters the next partition
NextPartition ==
    /\ pc = "returned"
    /\ gender = GENDERS[1]
    /\ gender' = GENDERS[2]
    /\ box_files' \in BoxFileSets
    /\ team_files' \in TeamFileSets
    /\ visible' \in {"absent", "previous"}
    /\ unreadable' \in BOOLEAN
    /\ pc' = "load"
    /\ UNCHANGED <<box, team, m, agg, out>>

NextMain == Next \/ LoadRaises \/ WriteFails \/ Return \/ NextPartition

SpecMain == InitMain /\ [][NextMain]_vars

-----------------------------------------------------------------------------
(* compute_war: the loading of its box scores *)

\* rows of the CSV files in data/boxscores; the team totals that
\* drop_duplicates also compares are the same on every row here
WarFileRows == [game_id : Games, team_id : {"A"}, player_name : Players, minutes : {0, 1}]

\* compute_war.py lines 50-53: a row equal to an earlier one is dropped
RECURSIVE drop_duplicates(_)
drop_duplicates(rows) ==
    IF rows = << >> THEN << >>
    ELSE LET n    == Len(rows)
             head == drop_duplicates(SubSeq(rows, 1, n - 1))
         IN  IF \E i \in 1..(n - 1) : rows[i] = rows[n]
             THEN head
             ELSE Append(head, rows[n])

\* compute_war.main is started on the files of data/boxscores
InitWar ==
    /\ pc = "war_load"
    /\ box_files \in SeqsUpTo(WarFileRows, MaxBoxRows)
    /\ team_files = << >>
    /\ box = << >>
    /\ team = << >>
    /\ m = << >>
    /\ agg = << >>
    /\ out = "absent"
    /\ visible = "absent"
    /\ gender = "all"
    /\ unreadable = FALSE

\* compute_war.py lines 27-54: with no file the run ends in SystemExit with
\* a message, which is exit status 1, before any leaderboard is written
load_boxscores ==
    /\ pc = "war_load"
    /\ IF box_files = << >>
       THEN /\ box' = box
            /\ pc' = "SystemExit"
       ELSE /\ box' = drop_duplicates(box_files)
            /\ pc' = "war_loaded"
    /\ UNCHANGED <<box_files, team_files, team, m, agg, out, visible, gender,
                   unreadable>>

NextWar == load_boxscores

SpecWar == InitWar /\ [][NextWar]_vars

-----------------------------------------------------------------------------
(* Vocabulary of the properties *)

\* the partition had data, so process_gender went past its early return
HasData == box_files # << >> /\ team_files # << >>

TeamResolved == HasData /\ pc \in {"allocate", "aggregate", "write", "done"}

Allocated == HasData /\ pc \in {"aggregate", "write", "done"}

Aggregated == HasData /\ pc \in {"write", "done"}

Written == HasData /\ pc = "done"

\* plain sum of a sequence of fractions (NaN propagates)
RECURSIVE RSum(_)
RSum(s) == IF s = << >> THEN Zero ELSE RAdd(Head(s), RSum(Tail(s)))

\* the rows of m of team-game (g, t)
TeamGameRows(g, t) == SelectSeq(m, LAMBDA r : r.game_id = g /\ r.team_name = t)

\* the rows of m of player (p, t)
SeasonRows(p, t) == SelectSeq(m, LAMBDA r : r.player_name = p /\ r.team_name = t)

\* a team file row with the keys (g, t) exists
HasTeamRow(g, t) ==
    \E j \in 1..Len(team_files) :
        team_files[j].game_id = g /\ team_files[j].team_name = t

AllZero(rows, col) == \A j \in 1..Len(rows) : rows[j][col] = Zero

SameValue(rows, col) == \A j \in 1..Len(rows) : rows[j][col] = rows[1][col]

\* min_share and both box alphas sum to 1 over the rows
TruePartition(rows) ==
    /\ RSum(Column(rows, "min_share")) = One
    /\ RSum(Column(rows, "off_alpha")) = One
    /\ RSum(Column(rows, "def_alpha")) = One

-----------------------------------------------------------------------------
(* C1: in a team-game with player rows whose min_share, off_alpha and      *)
(* def_alpha each sum to 1, the players' Off sum to the team-game's        *)
(* off_share and their Def to its def_share.                               *)

C1_Conservation ==
    Allocated =>
        \A i \in 1..Len(m) :
            LET rows == TeamGameRows(m[i].game_id, m[i].team_name)
            IN  ( /\ ~IsNaN(m[i].diff)
                  /\ SameValue(rows, "off_share")
                  /\ SameValue(rows, "def_share")
                  /\ TruePartition(rows) )
                => /\ RSum(Column(rows, "Off")) = m[i].off_share
                   /\ RSum(Column(rows, "Def")) = m[i].def_share

\* two players share a team-game with non-zero shares; the box weights differ
\* from the minutes shares
C1_Witness ==
    /\ Allocated
    /\ \E i \in 1..Len(m) :
        LET rows == TeamGameRows(m[i].game_id, m[i].team_name)
        IN  /\ Len(rows) = 2
            /\ rows[1].player_name # rows[2].player_name
            /\ TruePartition(rows)
            /\ m[i].off_share \notin {Zero, NaN}
            /\ m[i].def_share \notin {Zero, NaN}
            /\ m[i].off_alpha # m[i].min_share

(* C2: off_share + def_share = diff on every team-game row, the 0.5        *)
(* fallback split of a 0-0 score included.                                 *)

C2_SharesDecomposeDiff ==
    TeamResolved =>
        \A i \in 1..Len(team) :
            RAdd(team[i].off_share, team[i].def_share) = team[i].diff

\* a row split in thirds next to its opponent, both shares non-zero
C2_Witness ==
    /\ TeamResolved
    /\ \E i \in 1..Len(team) :
        /\ team[i].off_share # Zero
        /\ team[i].def_share # Zero
        /\ team[i].off_share # team[i].diff

(* C3: a team-game row whose opponent has no row in the team records gets  *)
(* an undefined differential, never that of an opponent who scored 0.      *)

C3_UnmatchedOpponentUndefined ==
    TeamResolved =>
        \A i \in 1..Len(team) :
            ~HasTeamRow(team[i].game_id, team[i].opp_team_name)
                => IsNaN(team[i].diff)

(* C4: a player-game row without a team-game row is excluded from the      *)
(* season aggregation: it adds nothing to Off, Def and Overall, it is not  *)
(* counted in games, and it makes no leaderboard row on its own.           *)

C4_UnmatchedPlayerExcluded ==
    Aggregated =>
        \A i \in 1..Len(agg) :
            LET rows == SeasonRows(agg[i].player_name, agg[i].team_name)
                matched == SelectSeq(rows, LAMBDA r : HasTeamRow(r.game_id, r.team_name))
            IN  /\ matched # << >>
                /\ agg[i].games = Len(matched)

(* C5: games of a leaderboard player is the number of distinct game_id     *)
(* values among the player's rows, repeated rows included.                 *)

C5_GamesCountsDistinctGames ==
    Aggregated =>
        \A i \in 1..Len(agg) :
            agg[i].games =
                Cardinality({ box_files[j].game_id : j \in
                    { k \in 1..Len(box_files) :
                        /\ box_files[k].player_name = agg[i].player_name
                        /\ box_files[k].team_name = agg[i].team_name } })

(* C6: in every written leaderboard row, Overall = Off + Def.              *)

C6_OverallIsOffPlusDef ==
    Written =>
        \A i \in 1..Len(out) : out[i].Overall = out[i].Off + out[i].Def

(* C7: in a team-game whose players all have off_w = 0, off_alpha is       *)
(* min_share for every player and Off = min_share * off_share; likewise    *)
(* for def_w, def_alpha and Def, whatever the other category does.         *)

C7_DegenerateFallback ==
    Allocated =>
        \A i \in 1..Len(m) :
            LET rows == TeamGameRows(m[i].game_id, m[i].team_name)
            IN  /\ AllZero(rows, "off_w") =>
                    /\ m[i].off_alpha = m[i].min_share
                    /\ m[i].Off = RMul(m[i].min_share, m[i].off_share)
                /\ AllZero(rows, "def_w") =>
                    /\ m[i].def_alpha = m[i].min_share
                    /\ m[i].Def = RMul(m[i].min_share, m[i].def_share)

\* offense degenerate, defense not: a player with minutes gets
\* min_share * off_share, half of an off_share of 2/3
C7_Witness ==
    /\ Allocated
    /\ \E i \in 1..Len(m) :
        LET rows == TeamGameRows(m[i].game_id, m[i].team_name)
        IN  /\ AllZero(rows, "off_w")
            /\ ~AllZero(rows, "def_w")
            /\ m[i].min_share = Half
            /\ m[i].off_share = Rat(2, 3)
            /\ m[i].Off = Rat(1, 3)

(* C8: off_alpha and def_alpha each sum to 1 over the players of every     *)
(* team-game, under the degenerate fallback too.                           *)

C8_AlphasSumToOne ==
    Allocated =>
        \A i \in 1..Len(m) :
            LET rows == TeamGameRows(m[i].game_id, m[i].team_name)
            IN  /\ RSum(Column(rows, "off_alpha")) = One
                /\ RSum(Column(rows, "def_alpha")) = One

(* C8 as amended: the alphas of a team-game sum to 1 when its clipped      *)
(* weights have a positive sum; under the fallback they sum to what its    *)
(* min_share values sum to.                                                *)

C8_AlphasSumAmended ==
    Allocated =>
        \A i \in 1..Len(m) :
            LET rows == TeamGameRows(m[i].game_id, m[i].team_name)
                mins == RSum(Column(rows, "min_share"))
            IN  /\ RSum(Column(rows, "off_alpha")) =
                      IF AllZero(rows, "off_w") THEN mins ELSE One
                /\ RSum(Column(rows, "def_alpha")) =
                      IF AllZero(rows, "def_w") THEN mins ELSE One

\* two games in m: in one the offense weights are normalised between two
\* players, in one the fallback sums to min_share values that do not sum to 1
C8_Witness ==
    /\ Allocated
    /\ \E i, k \in 1..Len(m) :
        LET rows == TeamGameRows(m[i].game_id, m[i].team_name)
            other == TeamGameRows(m[k].game_id, m[k].team_name)
        IN  /\ Len(rows) = 2
            /\ m[i].off_alpha \notin {Zero, One, NaN}
            /\ AllZero(other, "def_w")
            /\ RSum(Column(other, "def_alpha")) # One

(* C9: a team-game with declared team_min zero or absent gets the sum of   *)
(* its players' minutes, or 40 when that sum is zero too, so the team      *)
(* minutes are always positive.                                            *)

C9_TeamMinDefault ==
    TeamResolved =>
        \A i \in 1..Len(team) :
            LET declared == { team_files[j].team_min : j \in
                                { k \in 1..Len(team_files) :
                                    /\ team_files[k].game_id = team[i].game_id
                                    /\ team_files[k].team_name = team[i].team_name } }
                mine == SelectSeq(box_files, LAMBDA b :
                            b.game_id = team[i].game_id /\ b.team_name = team[i].team_name)
                played == RSum([j \in 1..Len(mine) |-> FromInt(BoxLines[mine[j].line].MIN)])
            IN  /\ RGt(team[i].team_min, Zero)
                /\ declared = {0} =>
                    team[i].team_min = IF RGt(played, Zero) THEN played ELSE FromInt(40)

(* C10: a player row of a team-game whose team minutes are 0 gets          *)
(* min_share 0 (the quotient by the replaced divisor is NaN, not an error, *)
(* and is filled with 0), so mins_off and mins_def are 0.                  *)

C10_ZeroMinutesSafe ==
    Allocated =>
        \A i \in 1..Len(m) :
            ( /\ \E j \in 1..Len(team) :
                    /\ team[j].game_id = m[i].game_id
                    /\ team[j].team_name = m[i].team_name
                    /\ team[j].team_min = Zero
              /\ \A j \in 1..Len(team) :
                    ( team[j].game_id = m[i].game_id
                      /\ team[j].team_name = m[i].team_name )
                    => team[j].team_min = Zero )
            => /\ m[i].min_share = Zero
               /\ m[i].mins_off = Zero
               /\ m[i].mins_def = Zero

\* a team-game with zero team minutes and a non-zero offense share has a
\* player row
C10_Witness ==
    /\ Allocated
    /\ \E i \in 1..Len(m) :
        /\ \E j \in 1..Len(team) :
            /\ team[j].game_id = m[i].game_id
            /\ team[j].team_name = m[i].team_name
            /\ team[j].team_min = Zero
        /\ \A j \in 1..Len(team) :
            ( team[j].game_id = m[i].game_id /\ team[j].team_name = m[i].team_name )
            => team[j].team_min = Zero
        /\ m[i].off_share = FromInt(2)
        /\ m[i].min_share = Zero

(* C15: in a game with exactly two team rows that name each other as      *)
(* opponent, diff_A = -diff_B, off_share_A = -def_share_B and              *)
(* def_share_A = -off_share_B, so the four shares sum to 0, for every      *)
(* score, 0-0 included.                                                    *)

\* the team files hold exactly two rows, of one game, naming each other
PairedGame ==
    /\ Len(team_files) = 2
    /\ team_files[1].game_id = team_files[2].game_id
    /\ team_files[1].team_name # team_files[2].team_name
    /\ team_files[1].opp_team_name = team_files[2].team_name
    /\ team_files[2].opp_team_name = team_files[1].team_name

C15_ZeroSumGame ==
    (TeamResolved /\ PairedGame) =>
        /\ Len(team) = 2
        /\ team[1].diff = RNeg(team[2].diff)
        /\ team[1].off_share = RNeg(team[2].def_share)
        /\ team[1].def_share = RNeg(team[2].off_share)
        /\ RSum(<<team[1].off_share, team[1].def_share,
                  team[2].off_share, team[2].def_share>>) = Zero

\* a 2-1 game: the winner's offense share 2/3 is the loser's defense share -2/3
C15_Witness ==
    /\ TeamResolved
    /\ PairedGame
    /\ team[1].off_share = Rat(2, 3)
    /\ team[2].def_share = Rat(-2, 3)
    /\ team[2].off_share = Rat(-1, 3)

(* C11: the leaderboard rows are in descending Overall, and rows of equal   *)
(* Overall keep the order they had in the aggregated table (the sorted     *)
(* group keys), so one input has one row order.                            *)

C11_SortedStable ==
    Aggregated =>
        \A i, j \in 1..Len(agg) :
            i < j =>
                \/ agg[i].Overall > agg[j].Overall
                \/ /\ agg[i].Overall = agg[j].Overall
                   /\ KeyLess(<<agg[i].player_name, agg[i].team_name>>,
                              <<agg[j].player_name, agg[j].team_name>>)

(* C12: a file of a partition that cannot be read does not end the run:    *)
(* when main has ended after such a file, it has returned from the last    *)
(* partition and that partition's leaderboard is written.                  *)

MainEnded ==
    \/ pc \in {"read_failed", "raised", "write_failed"}
    \/ pc = "returned" /\ gender = GENDERS[Len(GENDERS)]

C12_ReadFailureSkipped ==
    (MainEnded /\ unreadable) =>
        /\ pc = "returned"
        /\ gender = GENDERS[Len(GENDERS)]
        /\ visible = "new"

(* C13: at every point of a run, a failed write included, the leaderboard  *)
(* path shows the complete leaderboard of before or the complete new one.  *)

C13_AtomicWrite == visible \in {"absent", "previous", "new"}

(* C14: a partition with no input file ends without an error, with a       *)
(* leaderboard of the header row and no data row.                          *)

NoInputFiles == box_files = << >> /\ team_files = << >> /\ ~unreadable

LoadEnded == pc \in {"done", "read_failed", "raised", "SystemExit", "war_loaded"}

C14_EmptyPartitionSucceeds ==
    (NoInputFiles /\ LoadEnded) =>
        /\ pc = "done"
        /\ visible = "new"
        /\ out = << >>

=============================================================================
